---------------------------- MODULE Spec2Model ----------------------------
(***************************************************************************)
(* A model of veisku's query engine: criterion parsing (cfg.rs), query     *)
(* compilation, matcher evaluation, select_all / select_one (query.rs)     *)
(* and the lazily loaded document handle (doc.rs).                         *)
(*                                                                         *)
(* Text is modelled as a sequence of one-character strings, so that        *)
(* prefixes, suffixes and searches are computed and not assumed.           *)
(***************************************************************************)
EXTENDS Integers, Sequences, FiniteSets, TLC

VARIABLES
    pc,         \* the position of the modelled caller
    token,      \* cfg.rs: the text handed to Criterion::from_str
    parsed,     \* cfg.rs: what Criterion::from_str returned for it
    negated,    \* cfg.rs: what it returned for the same text behind a "!"
    in_query,   \* cfg.rs: the parsed command-line Query (preset, criteria)
    compiled,   \* query.rs: what Query::from_opt returned for it
    file,       \* the file behind the handle: what opening and reading it gives
    doc,        \* doc.rs: a DocRead handle (path, meta)
    opens,      \* how many times ensure_meta opened the handle's file
    rets,       \* what each ensure_meta call on the handle returned, in order
    root,       \* the document root: what the file enumerator yields, in order
    query,      \* query.rs: the compiled Query
    it,         \* query.rs: the iterator select_all returned (phase, pos, peeked)
    out,        \* the elements the iterator has yielded, in order
    evlog,      \* every matcher evaluation and file opening so far, in order
    result,     \* query.rs: what select_one returned
    pulls,      \* how many times select_one called it.next()
    field,      \* query.rs: a metadata value handed to MetaOp::matches
    metaop,     \* query.rs: the MetaOp it is handed to
    compared,   \* query.rs: what MetaOp::matches returned for them
    tested,     \* query.rs: a matcher evaluated on the handle
    verdict,    \* query.rs: what Matcher::matches returned for the handle
    stream,     \* doc.rs: the bytes of the stream read_md_preamble reads
    reads,      \* doc.rs: how many bytes each read() of the stream returns
    extracted,  \* doc.rs: the block between the delimiters, when found
    preamble    \* doc.rs: what read_md_preamble returned

parseVars == <<token, parsed, negated>>

compileVars == <<in_query, compiled>>

docVars == <<file, doc, opens, rets>>

selVars == <<root, query, it, out, evlog, result, pulls>>

matchVars == <<field, metaop, compared, tested, verdict>>

preVars == <<stream, reads, extracted, preamble>>

vars == <<pc, parseVars, compileVars, docVars, selVars, matchVars, preVars>>

(***************************************************************************)
(* Bounds of the explored inputs.                                          *)
(***************************************************************************)
MaxTokLen == 4

MaxCriteria == 3

MaxCalls == 3

MaxDocs == 3

MaxMatchers == 2

MaxLong == 12

MaxSeq == 2

MaxPieces == 2

MaxReads == 2

(***************************************************************************)
(* Text helpers (the std::str methods the code calls).                     *)
(***************************************************************************)
None == [t |-> "None"]

Some(x) == [t |-> "Some", v |-> x]

\* F applied to the value of x, x evaluated once.
With(x, F(_)) == CHOOSE y \in {F(v) : v \in {x}} : TRUE

(***************************************************************************)
(* The parts of the state a specification leaves unused.                   *)
(***************************************************************************)
ParseIdle ==
    /\ token = <<>>
    /\ parsed = None
    /\ negated = None

CompileIdle ==
    /\ in_query = None
    /\ compiled = None

DocIdle ==
    /\ file = None
    /\ doc = None
    /\ opens = 0
    /\ rets = <<>>

SelIdle ==
    /\ root = <<>>
    /\ query = None
    /\ it = None
    /\ out = <<>>
    /\ evlog = <<>>
    /\ result = None
    /\ pulls = 0

MatchIdle ==
    /\ field = None
    /\ metaop = None
    /\ compared = None
    /\ tested = None
    /\ verdict = None

PreIdle ==
    /\ stream = <<>>
    /\ reads = <<>>
    /\ extracted = None
    /\ preamble = None

StartsWith(s, p) ==
    /\ Len(p) <= Len(s)
    /\ SubSeq(s, 1, Len(p)) = p

EndsWith(s, p) ==
    /\ Len(p) <= Len(s)
    /\ SubSeq(s, Len(s) - Len(p) + 1, Len(s)) = p

StripPrefix(s, p) ==
    IF StartsWith(s, p) THEN Some(SubSeq(s, Len(p) + 1, Len(s))) ELSE None

StripSuffix(s, p) ==
    IF EndsWith(s, p) THEN Some(SubSeq(s, 1, Len(s) - Len(p))) ELSE None

\* str::find of a one-character pattern: the first index (1-based), 0 if none.
Find(s, c) ==
    IF \E i \in 1..Len(s) : s[i] = c
    THEN CHOOSE i \in 1..Len(s) : s[i] = c /\ \A j \in 1..(i - 1) : s[j] # c
    ELSE 0

\* s.strip_prefix("/").and_then(|s| s.strip_suffix("/"))
StripSlashes(s) ==
    LET a == StripPrefix(s, <<"/">>)
    IN  IF a.t = "None" THEN None ELSE StripSuffix(a.v, <<"/">>)

(***************************************************************************)
(* cfg.rs: Criterion and SimpleCriterion.                                  *)
(***************************************************************************)
Err(m) == [t |-> "Err", msg |-> m]

NameSmart(p) == [t |-> "NameSmart", pattern |-> p]

NameRegexC(r) == [t |-> "NameRegex", regex |-> r]

MetaEqC(k, v) == [t |-> "MetaEq", key |-> k, value |-> v]

MetaRegexC(k, r) == [t |-> "MetaRegex", key |-> k, regex |-> r]

Simple(neg, sc) == [t |-> "Simple", negate |-> neg, simple_criterion |-> sc]

\* FromStrKeyValue with the test for ">" left out.
FromStrKeyValue_NoGt(negate, s, i) ==
    LET key   == SubSeq(s, 1, i - 1)
        value == SubSeq(s, i + 1, Len(s))
        re    == StripSlashes(value)
    IN  IF StartsWith(value, <<"<">>)
        THEN Err("Unimplemented syntax")
        ELSE IF re.t = "Some"
             THEN Simple(negate, MetaRegexC(key, re.v))
             ELSE Simple(negate, MetaEqC(key, value))

\* The `KEY:VALUE` branch of Criterion::from_str, `i` the index of the first ":".
FromStrKeyValue(negate, s, i) ==
    LET key   == SubSeq(s, 1, i - 1)
        value == SubSeq(s, i + 1, Len(s))
        re    == StripSlashes(value)
    IN  IF StartsWith(value, <<"<">>) \/ StartsWith(value, <<">">>)
        THEN Err("Unimplemented syntax")
        ELSE IF re.t = "Some"
             THEN Simple(negate, MetaRegexC(key, re.v))
             ELSE Simple(negate, MetaEqC(key, value))

\* FromStr with the `KEY:VALUE` test made before the `/REGEX/` test.
FromStr_SplitFirst(s0) ==
    LET stripped == StripPrefix(s0, <<"!">>)
        negate   == stripped.t = "Some"
        s        == IF negate THEN stripped.v ELSE s0
        re       == StripSlashes(s)
    IN  IF StartsWith(s, <<"=">>)
        THEN Err("=EXPRESSION syntax is not implemented")
        ELSE IF Find(s, ":") # 0
             THEN FromStrKeyValue(negate, s, Find(s, ":"))
             ELSE IF re.t = "Some"
                  THEN Simple(negate, NameRegexC(re.v))
                  ELSE IF negate
                       THEN Err("Smart name search cannot be used with negation")
                       ELSE NameSmart(s)

\* <Criterion as FromStr>::from_str
FromStr(s0) ==
    LET stripped == StripPrefix(s0, <<"!">>)
        negate   == stripped.t = "Some"
        s        == IF negate THEN stripped.v ELSE s0
        re       == StripSlashes(s)
    IN  IF re.t = "Some"
        THEN Simple(negate, NameRegexC(re.v))
        ELSE IF StartsWith(s, <<"=">>)
             THEN Err("=EXPRESSION syntax is not implemented")
             ELSE IF Find(s, ":") # 0
                  THEN FromStrKeyValue(negate, s, Find(s, ":"))
                  ELSE IF negate
                       THEN Err("Smart name search cannot be used with negation")
                       ELSE NameSmart(s)

(***************************************************************************)
(* The tokens explored: every text of at most MaxTokLen characters over    *)
(* the characters the parser distinguishes, and the documented forms.      *)
(***************************************************************************)
TokChars == {"!", "/", "=", ":", "<", ">", "a"}

SeqsUpTo(S, n) == UNION {[1..k -> S] : k \in 0..n}

Contents == <<"c", "o", "n", "t", "e", "n", "t", "s">>

DocumentedTokens ==
    { Contents \o <<":", "a">>,
      <<"!">> \o Contents \o <<":", "a">>,
      Contents \o <<":", "/", "a", "/">>,
      <<"p", "a", "t", "h", ":", "/", "a", "/">>,
      <<"a", ":", "<", ":", "a">>,
      <<"a", ":", "a", ":", ">">>,
      <<"!", "a", ":", ">", "=", "a">> }

Tokens == SeqsUpTo(TokChars, MaxTokLen) \cup DocumentedTokens

(***************************************************************************)
(* Parsing one token, and then the same token behind a "!".                *)
(***************************************************************************)
InitParse ==
    /\ token \in Tokens
    /\ parsed = None
    /\ negated = None
    /\ pc = "token"
    /\ CompileIdle
    /\ DocIdle
    /\ SelIdle
    /\ MatchIdle
    /\ PreIdle

Parse ==
    /\ pc = "token"
    /\ parsed' = FromStr(token)
    /\ pc' = "parsed"
    /\ UNCHANGED <<token, negated, compileVars,
                   docVars, selVars, matchVars, preVars>>

ParseNegated ==
    /\ pc = "parsed"
    /\ negated' = FromStr(<<"!">> \o token)
    /\ pc' = "negated"
    /\ UNCHANGED <<token, parsed, compileVars,
                   docVars, selVars, matchVars, preVars>>

NextParse ==
    \/ Parse
    \/ ParseNegated

SpecParse == InitParse /\ [][NextParse]_vars

(***************************************************************************)
(* query.rs: the matchers and the compiled Query.                          *)
(***************************************************************************)
Ok(x) == [t |-> "Ok", v |-> x]

Always == [t |-> "Always"]

Never == [t |-> "Never"]

Negate(m) == [t |-> "Negate", inner |-> m]

NameRegex(re) == [t |-> "NameRegex", regex |-> re]

SmartNameExact(p) == [t |-> "SmartNameExact", pattern |-> p]

SmartNamePrefix(p) == [t |-> "SmartNamePrefix", pattern |-> p]

Eq(rhs) == [t |-> "Eq", rhs |-> rhs]

Regex(re) == [t |-> "Regex", regex |-> re]

Meta(key, op) == [t |-> "Meta", key |-> key, op |-> op]

(***************************************************************************)
(* The regex crate, for the patterns explored here: literal characters     *)
(* with an optional leading "^".  A pattern holding "(" has an unclosed    *)
(* group (no pattern here holds ")") and does not compile.                 *)
(***************************************************************************)
RegexValid(p) == \A i \in 1..Len(p) : p[i] # "("

\* regex::Regex::new(..).with_context(..)
RegexNew(p) ==
    IF RegexValid(p)
    THEN Ok([pattern |-> p])
    ELSE [t |-> "Err", msg |-> "Failed to comple the regex", pattern |-> p]

Contains(s, p) ==
    \E i \in 0..(Len(s) - Len(p)) : SubSeq(s, i + 1, i + Len(p)) = p

\* regex::Regex::is_match
RegexIsMatch(re, s) ==
    IF StartsWith(re.pattern, <<"^">>)
    THEN StartsWith(s, Tail(re.pattern))
    ELSE Contains(s, re.pattern)

(***************************************************************************)
(* query.rs: Query::from_opt.                                              *)
(***************************************************************************)
\* The `match simple_criterion` of Query::from_opt: Ok(matcher) or the error
\* of the regex compilation.
CompileSimple(sc) ==
    IF sc.t = "NameRegex"
    THEN LET re == RegexNew(sc.regex)
         IN  IF re.t = "Err" THEN re ELSE Ok(NameRegex(re.v))
    ELSE IF sc.t = "MetaEq"
         THEN Ok(Meta(sc.key, Eq(sc.value)))
         ELSE LET re == RegexNew(sc.regex)
              IN  IF re.t = "Err" THEN re ELSE Ok(Meta(sc.key, Regex(re.v)))

\* The loop of Query::from_opt with a second NameSmart overwriting the first.
RECURSIVE FromOptLoop_LastSmartWins(_, _, _)
FromOptLoop_LastSmartWins(criteria, i, qry) ==
    IF i > Len(criteria)
    THEN Ok(qry)
    ELSE LET criterion == criteria[i]
         IN  IF criterion.t = "NameSmart"
             THEN FromOptLoop_LastSmartWins(criteria, i + 1,
                      [qry EXCEPT !.smart_name = Some(criterion.pattern)])
             ELSE LET m == CompileSimple(criterion.simple_criterion)
                  IN  IF m.t = "Err"
                      THEN m
                      ELSE FromOptLoop_LastSmartWins(criteria, i + 1,
                               [qry EXCEPT !.matchers =
                                   Append(@, IF criterion.negate
                                             THEN Negate(m.v) ELSE m.v)])

\* The `for criterion in in_query.criteria.iter()` loop of Query::from_opt,
\* from the i-th criterion on.
RECURSIVE FromOptLoop(_, _, _)
FromOptLoop(criteria, i, qry) ==
    IF i > Len(criteria)
    THEN Ok(qry)
    ELSE LET criterion == criteria[i]
         IN  IF criterion.t = "NameSmart"
             THEN IF qry.smart_name.t = "Some"
                  THEN Err("Smart name search criteria can only appear once")
                  ELSE FromOptLoop(criteria, i + 1,
                           [qry EXCEPT !.smart_name = Some(criterion.pattern)])
             ELSE LET m == CompileSimple(criterion.simple_criterion)
                  IN  IF m.t = "Err"
                      THEN m
                      ELSE FromOptLoop(criteria, i + 1,
                               [qry EXCEPT !.matchers =
                                   Append(@, IF criterion.negate
                                             THEN Negate(m.v) ELSE m.v)])

\* Query::from_opt
FromOpt(inq) ==
    IF inq.preset # "default" /\ inq.preset # ""
    THEN Err("Unknown qry preset")
    ELSE FromOptLoop(inq.criteria, 1, [smart_name |-> None, matchers |-> <<>>])

(***************************************************************************)
(* The command lines explored: a preset and up to MaxCriteria criteria,    *)
(* each the parse of one of these tokens.                                  *)
(***************************************************************************)
Tag == <<"t", "a", "g">>

W == <<"w">>

Path == <<"p", "a", "t", "h">>

QueryTokens ==
    { <<"f">>,
      <<"f", "o">>,
      <<"/", "^", "f", "/">>,
      <<"!", "/", "o", "/">>,
      <<"/", "(", "/">>,
      Tag \o <<":", "w">>,
      <<"!">> \o Tag \o <<":", "w">>,
      Tag \o <<":", "/", "^", "w", "/">>,
      Path \o <<":", "/", "f", "o", "/">> }

Presets == {"default", "", "mine"}

CriteriaPool == {FromStr(tok) : tok \in QueryTokens}

InQueries ==
    [preset : Presets, criteria : SeqsUpTo(CriteriaPool, MaxCriteria)]

InitCompile ==
    /\ pc = "criteria"
    /\ in_query \in InQueries
    /\ compiled = None
    /\ ParseIdle
    /\ DocIdle
    /\ SelIdle
    /\ MatchIdle
    /\ PreIdle

Compile ==
    /\ pc = "criteria"
    /\ compiled' = FromOpt(in_query)
    /\ pc' = "compiled"
    /\ UNCHANGED <<in_query, parseVars, docVars, selVars, matchVars, preVars>>

NextCompile == Compile

SpecCompile == InitCompile /\ [][NextCompile]_vars

(***************************************************************************)
(* doc.rs: metadata values, files and the DocRead handle.                  *)
(***************************************************************************)
Null == [t |-> "Null"]

Str(s) == [t |-> "String", v |-> s]

Sequence(xs) == [t |-> "Sequence", v |-> xs]

Number(n) == [t |-> "Number", v |-> n]

Bool(b) == [t |-> "Bool", v |-> b]

\* A mapping with the single key k.
Mapping(k, x) == [t |-> "Mapping", key |-> k, v |-> x]

\* What File::open and read_md_preamble give for a file: `open` is whether
\* it can be opened, `pre` the result of read_md_preamble on its bytes.
FileOf(canOpen, pre) == [open |-> canOpen, pre |-> pre]

MetaValues ==
    { Mapping(Tag, Str(<<"w">>)),
      Mapping(Tag, Sequence(<<Number(1), Str(<<"w">>)>>)),
      Mapping(<<"n">>, Number(1)) }

PreambleResults ==
    { Err("Failed to read the file"),
      Err("Failed to decdoe the preamble as UTF-8"),
      Err("Failed to parse the preamble as YAML"),
      Ok(None) }
    \cup {Ok(Some(x)) : x \in MetaValues}

Files ==
    {FileOf(FALSE, Ok(None))} \cup {FileOf(TRUE, r) : r \in PreambleResults}

\* DocRead::new
DocReadNew(path) == [path |-> path, meta |-> None]

\* A file given by its bytes.  `reads` lists how many bytes the successive
\* read() calls of the loop return (a read past the list returns all that
\* is left), `fail` is the number of the read that ends in an I/O error
\* (Some(0) for read_exact, None for none) and `yaml` is what
\* serde_yaml::from_str gives for the file's block.
StreamFile(bytes, sizes, fail, yaml) ==
    [open |-> TRUE, bytes |-> bytes, reads |-> sizes, fail |-> fail, yaml |-> yaml]

Dashes == <<"-", "-", "-">>

\* The opening and the closing delimiter of each line-ending style.
separators ==
    << <<Dashes \o <<"\r", "\n">>, <<"\r", "\n">> \o Dashes \o <<"\r", "\n">> >>,
       <<Dashes \o <<"\n">>, <<"\n">> \o Dashes \o <<"\n">> >>,
       <<Dashes \o <<"\r">>, <<"\r">> \o Dashes \o <<"\r">> >> >>

SetMin(S) == CHOOSE x \in S : \A y \in S : x <= y

\* file.read(&mut buf) as read number n of the loop, `pos` bytes consumed.
NumBytesRead(f, pos, n) ==
    LET left == Len(f.bytes) - pos
    IN  IF left <= 0 THEN 0
        ELSE IF n <= Len(f.reads) /\ f.reads[n] < left THEN f.reads[n]
        ELSE left

\* The positions i where pre_bytes[search_start..].windows(len) finds sep2.
WindowHits(pre_bytes, search_start, sep2) ==
    {i \in 0..(Len(pre_bytes) - search_start - Len(sep2)) :
        SubSeq(pre_bytes, search_start + i + 1, search_start + i + Len(sep2)) = sep2}

\* The loop of read_md_preamble searching only the bytes just read.
RECURSIVE MunchLoop_NoOverlap(_, _, _, _, _)
MunchLoop_NoOverlap(f, sep2, pos, n, pre_bytes) ==
    IF f.fail = Some(n) THEN Err("Failed to read the file")
    ELSE IF NumBytesRead(f, pos, n) = 0 THEN Ok(None)
    ELSE With(pre_bytes \o SubSeq(f.bytes, pos + 1, pos + NumBytesRead(f, pos, n)),
              LAMBDA extended :
                  LET hits == WindowHits(extended, Len(pre_bytes), sep2)
                  IN  IF hits # {}
                      THEN Ok(Some(SubSeq(extended, 1, Len(pre_bytes) + SetMin(hits))))
                      ELSE MunchLoop_NoOverlap(f, sep2, pos + NumBytesRead(f, pos, n),
                                               n + 1, extended))

\* The loop of read_md_preamble, at its read number n: Ok(Some(block)) when
\* the second separator is found, Ok(None) at the end of the stream.
RECURSIVE MunchLoop(_, _, _, _, _)
MunchLoop(f, sep2, pos, n, pre_bytes) ==
    IF f.fail = Some(n) THEN Err("Failed to read the file")
    ELSE IF NumBytesRead(f, pos, n) = 0 THEN Ok(None)
    ELSE With(pre_bytes \o SubSeq(f.bytes, pos + 1, pos + NumBytesRead(f, pos, n)),
              LAMBDA extended :
                  LET search_start == IF Len(pre_bytes) > Len(sep2) - 1
                                      THEN Len(pre_bytes) - (Len(sep2) - 1)
                                      ELSE 0
                      hits == WindowHits(extended, search_start, sep2)
                  IN  IF hits # {}
                      THEN Ok(Some(SubSeq(extended, 1, search_start + SetMin(hits))))
                      ELSE MunchLoop(f, sep2, pos + NumBytesRead(f, pos, n),
                                     n + 1, extended))

\* read_md_preamble with a stream too short for the lookahead reported as
\* an error.
ExtractBlock_ShortIsErr(f) ==
    IF f.fail = Some(0) \/ Len(f.bytes) < 5 THEN Err("Failed to read the file")
    ELSE LET buf   == SubSeq(f.bytes, 1, 5)
             found == {k \in 1..Len(separators) : StartsWith(buf, separators[k][1])}
         IN  IF found = {} THEN Ok(None)
             ELSE LET sep == separators[SetMin(found)]
                  IN  MunchLoop(f, sep[2], 5, 1, SubSeq(buf, Len(sep[1]) + 1, 5))

\* read_md_preamble up to the block: the lookahead, the first separator and
\* the loop.
ExtractBlock(f) ==
    IF f.fail = Some(0) THEN Err("Failed to read the file")
    ELSE IF Len(f.bytes) < 5 THEN Ok(None)
    ELSE LET buf   == SubSeq(f.bytes, 1, 5)
             found == {k \in 1..Len(separators) : StartsWith(buf, separators[k][1])}
         IN  IF found = {} THEN Ok(None)
             ELSE LET sep == separators[SetMin(found)]
                  IN  MunchLoop(f, sep[2], 5, 1, SubSeq(buf, Len(sep[1]) + 1, 5))

\* std::str::from_utf8
FromUtf8(bytes) ==
    IF \E i \in 1..Len(bytes) : bytes[i] = "?"
    THEN Err("Failed to decdoe the preamble as UTF-8")
    ELSE Ok(bytes)

\* read_md_preamble(file)
ReadMdPreamble(f) ==
    IF "pre" \in DOMAIN f THEN f.pre
    ELSE With(ExtractBlock(f),
              LAMBDA b :
                  IF b.t = "Err" THEN b
                  ELSE IF b.v.t = "None" THEN Ok(None)
                  ELSE IF FromUtf8(b.v.v).t = "Err" THEN FromUtf8(b.v.v)
                  ELSE IF f.yaml.t = "Err"
                       THEN Err("Failed to parse the preamble as YAML")
                       ELSE Ok(Some(f.yaml.v)))

\* DocRead::ensure_meta on handle d while its file is f: the value returned,
\* the handle afterwards, and whether the file was opened.
EnsureMeta(d, f) ==
    IF d.meta.t = "None"
    THEN IF ~f.open
         THEN [ret |-> [t |-> "Err", msg |-> "Failed to open", path |-> d.path],
               doc |-> d, opened |-> TRUE]
         ELSE LET r == ReadMdPreamble(f)
              IN  IF r.t = "Err"
                  THEN [ret |-> [t |-> "Err", msg |-> "Failed to read metadata",
                                 path |-> d.path, source |-> r.msg],
                        doc |-> d, opened |-> TRUE]
                  ELSE LET value == IF r.v.t = "Some" THEN r.v.v ELSE Null
                       IN  [ret |-> Ok(value),
                            doc |-> [d EXCEPT !.meta = Some(value)],
                            opened |-> TRUE]
    ELSE [ret |-> Ok(d.meta.v), doc |-> d, opened |-> FALSE]

(***************************************************************************)
(* std::path::Path, for the paths explored here.  The character "?" stands *)
(* for a byte sequence that is not UTF-8.                                  *)
(***************************************************************************)
SetMax(S) == CHOOSE x \in S : \A y \in S : y <= x

FileName(path) ==
    LET slashes == {i \in 1..Len(path) : path[i] = "/"}
    IN  IF slashes = {} THEN path
        ELSE SubSeq(path, SetMax(slashes) + 1, Len(path))

\* Path::file_stem
FileStem(path) ==
    LET name == FileName(path)
        dots == {i \in 2..Len(name) : name[i] = "."}
    IN  IF name = <<>> \/ name = <<".", ".">> THEN None
        ELSE IF dots = {} THEN Some(name)
        ELSE Some(SubSeq(name, 1, SetMax(dots) - 1))

\* OsStr::to_str
ToStr(os) == IF \E i \in 1..Len(os) : os[i] = "?" THEN None ELSE Some(os)

\* Path::to_string_lossy
ToStringLossy(path) ==
    [i \in 1..Len(path) |-> IF path[i] = "?" THEN "U+FFFD" ELSE path[i]]

(***************************************************************************)
(* query.rs: the matchers' evaluation.                                     *)
(***************************************************************************)
\* Index<&str> of the metadata value: the field, Null when there is none.
YamlIndex(yaml, key) ==
    IF yaml.t = "Mapping" /\ yaml.key = key THEN yaml.v ELSE Null

\* The fold closure with the first comparable element deciding.
FoldTriState_FirstDecides(acc, x) ==
    IF acc.t = "Some" THEN acc ELSE x

\* The fold closure of MetaOp::matches for a sequence.
FoldTriState(acc, x) ==
    IF (acc.t = "Some" /\ acc.v) \/ (x.t = "Some" /\ x.v) THEN Some(TRUE)
    ELSE IF acc.t = "Some" \/ x.t = "Some" THEN Some(FALSE)
    ELSE None

\* MetaOp::matches: Some(TRUE), Some(FALSE) or None (uncomparable).
RECURSIVE MetaOpMatches(_, _)
MetaOpMatches(op, yaml) ==
    IF yaml.t = "String"
    THEN Some(IF op.t = "Eq" THEN yaml.v = op.rhs ELSE RegexIsMatch(op.regex, yaml.v))
    ELSE IF yaml.t = "Sequence"
         THEN IF yaml.v = <<>>
              THEN Some(FALSE)
              ELSE LET each == [i \in 1..Len(yaml.v) |-> MetaOpMatches(op, yaml.v[i])]
                       fold[n \in 0..Len(yaml.v)] ==
                           IF n = 0 THEN None ELSE FoldTriState(fold[n - 1], each[n])
                   IN  fold[Len(yaml.v)]
         ELSE IF yaml.t = "Null" THEN Some(FALSE)
         ELSE None

\* What a matcher returns: the result, the handle afterwards (its meta slot
\* may have been filled) and whether the handle's file was opened.
Returned(ret, d, opened) == [ret |-> ret, doc |-> d, opened |-> opened]

\* The end of <Meta as Matcher>::matches with an uncomparable value taken
\* for a match.
MetaCompare_UncomparableTrue(op, yaml) ==
    With(MetaOpMatches(op, yaml),
         LAMBDA cmp : Ok(IF cmp.t = "Some" THEN cmp.v ELSE TRUE))

\* The end of <Meta as Matcher>::matches with an uncomparable value
\* reported as an error.
MetaCompare_UncomparableErr(op, yaml) ==
    With(MetaOpMatches(op, yaml),
         LAMBDA cmp : IF cmp.t = "Some" THEN Ok(cmp.v)
                      ELSE [t |-> "Err", msg |-> "uncomparable"])

\* The end of <Meta as Matcher>::matches: an uncomparable value is a warning
\* and Ok(false).
MetaCompare(op, yaml) ==
    With(MetaOpMatches(op, yaml),
         LAMBDA cmp : Ok(IF cmp.t = "Some" THEN cmp.v ELSE FALSE))

\* <Meta as Matcher>::matches loading the metadata for every key.
MetaMatches_PathLoads(m, d, f) ==
    With(EnsureMeta(d, f),
         LAMBDA r :
             IF r.ret.t = "Err"
             THEN Returned(r.ret, r.doc, r.opened)
             ELSE Returned(MetaCompare(m.op,
                                       IF m.key = Path
                                       THEN Str(ToStringLossy(d.path))
                                       ELSE YamlIndex(r.ret.v, m.key)),
                           r.doc, r.opened))

\* <Meta as Matcher>::matches
MetaMatches(m, d, f) ==
    IF m.key = Path
    THEN Returned(MetaCompare(m.op, Str(ToStringLossy(d.path))), d, FALSE)
    ELSE With(EnsureMeta(d, f),
              LAMBDA r :
                  IF r.ret.t = "Err"
                  THEN Returned(r.ret, r.doc, r.opened)
                  ELSE Returned(MetaCompare(m.op, YamlIndex(r.ret.v, m.key)),
                                r.doc, r.opened))

\* <NameRegex as Matcher>::matches
NameRegexMatches(m, d) ==
    LET stem == FileStem(d.path)
        text == IF stem.t = "Some" THEN ToStr(stem.v) ELSE None
    IN  IF text.t = "Some" THEN RegexIsMatch(m.regex, text.v) ELSE FALSE

\* <SmartNameExact as Matcher>::matches
SmartNameExactMatches(m, d) ==
    LET stem == FileStem(d.path)
    IN  IF stem.t = "Some" THEN stem.v = m.pattern ELSE FALSE

\* <SmartNamePrefix as Matcher>::matches
SmartNamePrefixMatches(m, d) ==
    LET stem == FileStem(d.path)
        text == IF stem.t = "Some" THEN ToStr(stem.v) ELSE None
    IN  IF text.t = "Some" THEN StartsWith(text.v, m.pattern) ELSE FALSE

RECURSIVE Matches(_, _, _)

\* <Negate as Matcher>::matches with the inner matcher's error taken for a
\* non-match, which the negation turns into a match.
NegateMatches_ErrIsMatch(m, d, f) ==
    With(Matches(m.inner, d, f),
         LAMBDA r : IF r.ret.t = "Err" THEN [r EXCEPT !.ret = Ok(TRUE)]
                    ELSE [r EXCEPT !.ret = Ok(~r.ret.v)])

\* <Negate as Matcher>::matches
NegateMatches(m, d, f) ==
    With(Matches(m.inner, d, f),
         LAMBDA r : IF r.ret.t = "Err" THEN r
                    ELSE [r EXCEPT !.ret = Ok(~r.ret.v)])

\* Matcher::matches, by the matcher's type.
Matches(m, d, f) ==
    CASE m.t = "Always" -> Returned(Ok(TRUE), d, FALSE)
      [] m.t = "Never" -> Returned(Ok(FALSE), d, FALSE)
      [] m.t = "Negate" -> NegateMatches(m, d, f)
      [] m.t = "NameRegex" -> Returned(Ok(NameRegexMatches(m, d)), d, FALSE)
      [] m.t = "SmartNameExact" -> Returned(Ok(SmartNameExactMatches(m, d)), d, FALSE)
      [] m.t = "SmartNamePrefix" -> Returned(Ok(SmartNamePrefixMatches(m, d)), d, FALSE)
      [] m.t = "Meta" -> MetaMatches(m, d, f)

(***************************************************************************)
(* query.rs: select_all.  The document root is the sequence the file       *)
(* enumerator yields: Err entries and Ok entries, each Ok entry a path     *)
(* with the file behind it.  An item of the returned iterator carries,     *)
(* next to the Result the code yields (res), the phase that produced it    *)
(* and its position in the enumeration.  The log records every call of     *)
(* root.docs() ("walk"), every matcher evaluation ("match", m = 0 is the   *)
(* smart-name matcher) and every file opening ("open").                    *)
(***************************************************************************)
Event(ev, phase, at, m) == [ev |-> ev, phase |-> phase, at |-> at, m |-> m]

Entry(path, f) == [t |-> "Ok", path |-> path, file |-> f]

\* The enumerator's error for its element number `at`.
WalkErr(at) == [t |-> "Err", msg |-> "walk", at |-> at]

\* DocRoot::docs, one element
Docs(entry) == IF entry.t = "Ok" THEN Ok(DocReadNew(entry.path)) ELSE entry

\* The smart-name matcher taking a prefix for a match already in phase 0.
SmartNameMatcher_PrefixFirst(qry, phase) ==
    IF qry.smart_name.t = "Some"
    THEN SmartNamePrefix(qry.smart_name.v)
    ELSE IF phase = 0 THEN Always ELSE Never

\* The `match (&query.smart_name, phase)` of select_all.
SmartNameMatcher(qry, phase) ==
    IF qry.smart_name.t = "Some"
    THEN IF phase = 0
         THEN SmartNameExact(qry.smart_name.v)
         ELSE SmartNamePrefix(qry.smart_name.v)
    ELSE IF phase = 0 THEN Always ELSE Never

\* The log entries of one matcher evaluation.
Logged(r, phase, at, mi) ==
    <<Event("match", phase, at, mi)>>
        \o (IF r.opened THEN <<Event("open", phase, at, mi)>> ELSE <<>>)

\* select_all::apply_matcher with an error returned as a non-match.
ApplyMatcher_ErrDropped(acc, matcher, f, phase, at, mi) ==
    IF acc.elem.t = "Some" /\ acc.elem.v.t = "Ok"
    THEN With(Matches(matcher, acc.elem.v.v, f),
              LAMBDA r :
                  [elem |-> IF r.ret.t = "Ok" /\ r.ret.v THEN Some(Ok(r.doc)) ELSE None,
                   log  |-> acc.log \o Logged(r, phase, at, mi)])
    ELSE acc

\* select_all::apply_matcher, for matcher number mi on the entry at `at`.
ApplyMatcher(acc, matcher, f, phase, at, mi) ==
    IF acc.elem.t = "Some" /\ acc.elem.v.t = "Ok"
    THEN With(Matches(matcher, acc.elem.v.v, f),
              LAMBDA r :
                  [elem |-> IF r.ret.t = "Err" THEN Some(r.ret)
                            ELSE IF r.ret.v THEN Some(Ok(r.doc)) ELSE None,
                   log  |-> acc.log \o Logged(r, phase, at, mi)])
    ELSE acc

\* query.matchers.iter().fold(.., apply_matcher), from the i-th matcher on.
RECURSIVE FoldMatchers(_, _, _, _, _, _)
FoldMatchers(acc, matchers, i, f, phase, at) ==
    IF i > Len(matchers) THEN acc
    ELSE With(ApplyMatcher(acc, matchers[i], f, phase, at, i),
              LAMBDA next : FoldMatchers(next, matchers, i + 1, f, phase, at))

\* The filter_map closure with the smart-name matcher applied after the
\* compiled matchers.
FilterClosure_NameLast(entry, qry, phase, at) ==
    With(IF entry.t = "Ok" THEN entry.file ELSE None,
         LAMBDA f :
             With(FoldMatchers([elem |-> Some(Docs(entry)), log |-> <<>>],
                               qry.matchers, 1, f, phase, at),
                  LAMBDA folded : ApplyMatcher(folded, SmartNameMatcher(qry, phase),
                                               f, phase, at, 0)))

\* The filter_map closure of select_all on the entry at position `at`.
FilterClosure(entry, qry, phase, at) ==
    With(IF entry.t = "Ok" THEN entry.file ELSE None,
         LAMBDA f :
             With(ApplyMatcher([elem |-> Some(Docs(entry)), log |-> <<>>],
                               SmartNameMatcher(qry, phase), f, phase, at, 0),
                  LAMBDA first : FoldMatchers(first, qry.matchers, 1, f, phase, at)))

\* FilterMap::next after `pos` entries were consumed.
RECURSIVE FilterMapNext(_, _, _, _, _)
FilterMapNext(rt, qry, phase, pos, log) ==
    IF pos >= Len(rt)
    THEN [item |-> None, pos |-> pos, log |-> log]
    ELSE With(FilterClosure(rt[pos + 1], qry, phase, pos + 1),
              LAMBDA r :
                  IF r.elem.t = "Some"
                  THEN [item |-> Some([phase |-> phase, at |-> pos + 1,
                                       res |-> r.elem.v]),
                        pos  |-> pos + 1,
                        log  |-> log \o r.log]
                  ELSE With(log \o r.log,
                            LAMBDA l : FilterMapNext(rt, qry, phase, pos + 1, l)))

\* Peekable::peek
PeekablePeek(rt, qry, iter) ==
    IF iter.peeked.t = "Some"
    THEN [it |-> iter, log |-> <<>>]
    ELSE With(FilterMapNext(rt, qry, iter.phase, iter.pos, <<>>),
              LAMBDA n :
                  [it  |-> [iter EXCEPT !.pos = n.pos, !.peeked = Some(n.item)],
                   log |-> n.log])

\* Peekable::next forgetting the element peek() looked at.
PeekableNext_PeekedLost(rt, qry, iter) ==
    With(FilterMapNext(rt, qry, iter.phase, iter.pos, <<>>),
         LAMBDA n :
             [item |-> n.item,
              it   |-> [iter EXCEPT !.pos = n.pos, !.peeked = None],
              log  |-> n.log])

\* Peekable::next
PeekableNext(rt, qry, iter) ==
    IF iter.peeked.t = "Some"
    THEN [item |-> iter.peeked.v, it |-> [iter EXCEPT !.peeked = None], log |-> <<>>]
    ELSE With(FilterMapNext(rt, qry, iter.phase, iter.pos, <<>>),
              LAMBDA n :
                  [item |-> n.item, it |-> [iter EXCEPT !.pos = n.pos], log |-> n.log])

\* root.docs() called in a phase: the enumeration starts.
Walk(phase) == Event("walk", phase, 0, 0)

\* select_all returning the phase-0 iterator whatever it holds.
SelectAllFrom_NoFallback(rt, qry, phase, log) ==
    With(PeekablePeek(rt, qry, [phase |-> phase, pos |-> 0, peeked |-> None]),
         LAMBDA pk : [it |-> pk.it, log |-> log \o <<Walk(phase)>> \o pk.log])

\* The loop of select_all going on to the next phase when the first
\* element of a phase is an error.
RECURSIVE SelectAllFrom_ErrIsEmpty(_, _, _, _)
SelectAllFrom_ErrIsEmpty(rt, qry, phase, log) ==
    With(PeekablePeek(rt, qry, [phase |-> phase, pos |-> 0, peeked |-> None]),
         LAMBDA pk :
             IF \/ phase = 1
                \/ /\ pk.it.peeked.v.t = "Some"
                   /\ pk.it.peeked.v.v.res.t = "Ok"
             THEN [it |-> pk.it, log |-> log \o <<Walk(phase)>> \o pk.log]
             ELSE With(log \o <<Walk(phase)>> \o pk.log,
                       LAMBDA l : SelectAllFrom_ErrIsEmpty(rt, qry, phase + 1, l)))

\* The `for phase in 0..2` loop of select_all, from `phase` on.
RECURSIVE SelectAllFrom(_, _, _, _)
SelectAllFrom(rt, qry, phase, log) ==
    With(PeekablePeek(rt, qry, [phase |-> phase, pos |-> 0, peeked |-> None]),
         LAMBDA pk :
             IF pk.it.peeked.v.t = "Some" \/ phase = 1
             THEN [it |-> pk.it, log |-> log \o <<Walk(phase)>> \o pk.log]
             ELSE With(log \o <<Walk(phase)>> \o pk.log,
                       LAMBDA l : SelectAllFrom(rt, qry, phase + 1, l)))

\* select_all
SelectAll(rt, qry) == SelectAllFrom(rt, qry, 0, <<>>)

(***************************************************************************)
(* query.rs: select_one.                                                   *)
(***************************************************************************)
num_candidates_to_display == 10

Empty == [t |-> "Empty"]

Ambiguous(candidates, truncated) ==
    [t |-> "Ambiguous", candidates |-> candidates, truncated |-> truncated]

Misc(e) == [t |-> "Misc", e |-> e]

\* it.next() in select_one: st holds the iterator, everything pulled from it
\* so far and the log.
Pull(rt, qry, st) ==
    With(PeekableNext(rt, qry, st.it),
         LAMBDA n : [it     |-> n.it,
                     pulled |-> Append(st.pulled, n.item),
                     log    |-> st.log \o n.log])

Last(xs) == xs[Len(xs)]

\* The loop collecting further candidates until the iterator ends.
RECURSIVE CollectCandidates_Unbounded(_, _, _, _, _)
CollectCandidates_Unbounded(rt, qry, st, candidates, k) ==
    With(Pull(rt, qry, st),
         LAMBDA st2 :
             IF Last(st2.pulled).t = "None"
             THEN [st |-> st2, candidates |-> candidates, err |-> None]
             ELSE IF Last(st2.pulled).v.res.t = "Err"
                  THEN [st |-> st2, candidates |-> candidates,
                        err |-> Some(Last(st2.pulled).v.res)]
                  ELSE With(Append(candidates, Last(st2.pulled).v.res.v),
                            LAMBDA cs :
                                CollectCandidates_Unbounded(rt, qry, st2, cs, k)))

\* The loop collecting further candidates, with k iterations left.
RECURSIVE CollectCandidates(_, _, _, _, _)
CollectCandidates(rt, qry, st, candidates, k) ==
    IF k = 0
    THEN [st |-> st, candidates |-> candidates, err |-> None]
    ELSE With(Pull(rt, qry, st),
              LAMBDA st2 :
                  IF Last(st2.pulled).t = "None"
                  THEN [st |-> st2, candidates |-> candidates, err |-> None]
                  ELSE IF Last(st2.pulled).v.res.t = "Err"
                       THEN [st |-> st2, candidates |-> candidates,
                             err |-> Some(Last(st2.pulled).v.res)]
                       ELSE With(Append(candidates, Last(st2.pulled).v.res.v),
                                 LAMBDA cs :
                                     CollectCandidates(rt, qry, st2, cs, k - 1)))

\* The end of select_one with the list never truncated.
ReportAmbiguous_NoTruncation(candidates) == Ambiguous(candidates, FALSE)

\* The end of select_one: the assertion, the truncation and the error.
ReportAmbiguous(candidates) ==
    IF Len(candidates) > num_candidates_to_display + 1
    THEN [t |-> "Panic"]
    ELSE LET truncated == Len(candidates) = num_candidates_to_display + 1
         IN  Ambiguous(IF truncated
                       THEN SubSeq(candidates, 1, Len(candidates) - 1)
                       ELSE candidates,
                       truncated)

\* The candidates of select_one, from the third it.next() on.
SelectOneMore(rt, qry, st2, first, second) ==
    With(CollectCandidates(rt, qry, st2, <<first, second>>,
                           num_candidates_to_display - 1),
         LAMBDA c :
             IF c.err.t = "Some"
             THEN [result |-> Misc(c.err.v), st |-> c.st]
             ELSE [result |-> ReportAmbiguous(c.candidates), st |-> c.st])

\* select_one returning the first element without asking for a second.
SelectOneSecond_FirstWins(rt, qry, st1, first) ==
    [result |-> Ok(first), st |-> st1]

\* select_one with an error in the second element taken for the end.
SelectOneSecond_ErrIsEnd(rt, qry, st1, first) ==
    With(Pull(rt, qry, st1),
         LAMBDA st2 :
             IF Last(st2.pulled).t = "None" \/ Last(st2.pulled).v.res.t = "Err"
             THEN [result |-> Ok(first), st |-> st2]
             ELSE SelectOneMore(rt, qry, st2, first, Last(st2.pulled).v.res.v))

\* select_one from the second it.next() on.
SelectOneSecond(rt, qry, st1, first) ==
    With(Pull(rt, qry, st1),
         LAMBDA st2 :
             IF Last(st2.pulled).t = "None"
             THEN [result |-> Ok(first), st |-> st2]
             ELSE IF Last(st2.pulled).v.res.t = "Err"
                  THEN [result |-> Misc(Last(st2.pulled).v.res), st |-> st2]
                  ELSE SelectOneMore(rt, qry, st2, first, Last(st2.pulled).v.res.v))

\* select_one: its result, and the iterator, the elements pulled and the log
\* when it returns.
SelectOne(rt, qry) ==
    With(SelectAll(rt, qry),
         LAMBDA sa :
             With(Pull(rt, qry, [it |-> sa.it, pulled |-> <<>>, log |-> sa.log]),
                  LAMBDA st1 :
                      IF Last(st1.pulled).t = "None"
                      THEN [result |-> Empty, st |-> st1]
                      ELSE IF Last(st1.pulled).v.res.t = "Err"
                           THEN [result |-> Misc(Last(st1.pulled).v.res), st |-> st1]
                           ELSE SelectOneSecond(rt, qry, st1,
                                                Last(st1.pulled).v.res.v)))

(***************************************************************************)
(* One handle, its metadata asked for up to MaxCalls times while the file  *)
(* system may change under it.                                             *)
(***************************************************************************)
DocPath == <<"/", "f", ".", "m", "d">>

InitDoc ==
    /\ pc = "doc"
    /\ file \in Files
    /\ doc = DocReadNew(DocPath)
    /\ opens = 0
    /\ rets = <<>>
    /\ ParseIdle
    /\ CompileIdle
    /\ SelIdle
    /\ MatchIdle
    /\ PreIdle

CallEnsureMeta ==
    /\ pc \in {"doc", "pre"}
    /\ Len(rets) < MaxCalls
    /\ LET r == EnsureMeta(doc, file)
       IN  /\ doc' = r.doc
           /\ rets' = Append(rets, r.ret)
           /\ opens' = IF r.opened THEN opens + 1 ELSE opens
    /\ UNCHANGED <<pc, file, parseVars,
                   compileVars, selVars, matchVars, preVars>>

\* Another process rewrites, removes or repairs the file.
FsChange ==
    /\ pc = "doc"
    /\ file' \in Files \ {file}
    /\ UNCHANGED <<pc, doc, opens, rets,
                   parseVars, compileVars, selVars, matchVars, preVars>>

NextDoc ==
    \/ CallEnsureMeta
    \/ FsChange

SpecDoc == InitDoc /\ [][NextDoc]_vars

(***************************************************************************)
(* read_md_preamble on a stream of bytes handed over in reads of any       *)
(* sizes, and ensure_meta on a handle of the same file.                    *)
(***************************************************************************)
RECURSIVE Flatten(_)
Flatten(ps) == IF ps = <<>> THEN <<>> ELSE Head(ps) \o Flatten(Tail(ps))

Openers ==
    {separators[k][1] : k \in 1..Len(separators)}
        \cup {<<"-", "-", "a", "\n">>, <<>>}

Pieces ==
    {separators[k][2] : k \in 1..Len(separators)}
        \cup {<<"a">>, <<"\n">>, <<"\r">>, <<"-">>, <<"?">>}

Streams == {o \o Flatten(ps) : o \in Openers, ps \in SeqsUpTo(Pieces, MaxPieces)}

RECURSIVE Sum(_)
Sum(xs) == IF xs = <<>> THEN 0 ELSE Head(xs) + Sum(Tail(xs))

\* The sizes of the reads of n bytes: up to MaxReads reads of any sizes and
\* one read of the rest, or one byte per read.
ReadSizes(n) ==
    {sizes \in SeqsUpTo(1..n, MaxReads) : Sum(sizes) < n}
        \cup {[i \in 1..n |-> 1]}

\* The failing read and the parser's answer.
Fates ==
    { [fail |-> None, yaml |-> Ok(Mapping(Tag, Str(W)))],
      [fail |-> None, yaml |-> Err("Failed to parse the preamble as YAML")],
      [fail |-> Some(0), yaml |-> Ok(Null)],
      [fail |-> Some(2), yaml |-> Ok(Null)] }

InitPreamble ==
    /\ pc = "pre"
    /\ stream \in Streams
    /\ reads \in ReadSizes(IF Len(stream) > 5 THEN Len(stream) - 5 ELSE 0)
    /\ \E fate \in Fates : file = StreamFile(stream, reads, fate.fail, fate.yaml)
    /\ extracted = None
    /\ preamble = None
    /\ doc = DocReadNew(DocPath)
    /\ opens = 0
    /\ rets = <<>>
    /\ ParseIdle
    /\ CompileIdle
    /\ SelIdle
    /\ MatchIdle

\* read_md_preamble(file)
CallReadMdPreamble ==
    /\ pc = "pre"
    /\ preamble = None
    /\ extracted' = ExtractBlock(file)
    /\ preamble' = ReadMdPreamble(file)
    /\ UNCHANGED <<pc, stream, reads, docVars, parseVars, compileVars,
                   selVars, matchVars>>

NextPreamble ==
    \/ CallReadMdPreamble
    \/ CallEnsureMeta

SpecPreamble == InitPreamble /\ [][NextPreamble]_vars

(***************************************************************************)
(* One matcher evaluated on one fresh handle, and MetaOp::matches on one   *)
(* metadata value.                                                         *)
(***************************************************************************)
Scalars == {Str(W), Str(<<"x">>), Number(1), Bool(TRUE), Null, Mapping(W, Str(W))}

\* The metadata values explored: scalars, and sequences of up to MaxSeq
\* scalars or one-element sequences.
FieldValues ==
    LET elems == Scalars \cup {Sequence(<<x>>) : x \in {Str(W), Number(1)}}
                         \cup {Sequence(<<>>)}
    IN  Scalars \cup {Sequence(xs) : xs \in SeqsUpTo(elems, MaxSeq)}

MetaOps == {Eq(W), Regex([pattern |-> <<"^", "w">>]), Eq(DocPath),
            Regex([pattern |-> <<"f">>])}

\* What the file behind the handle holds in its field `tag`.
MatchFiles(value) ==
    { FileOf(FALSE, Ok(None)),
      FileOf(TRUE, Err("Failed to parse the preamble as YAML")),
      FileOf(TRUE, Ok(None)),
      FileOf(TRUE, Ok(Some(Mapping(Tag, value)))) }

\* The matchers built over one MetaOp.
MatchersOf(o) ==
    LET plain == {Meta(Tag, o), Meta(<<"n">>, o), Meta(Path, o),
                  NameRegex([pattern |-> <<"f">>]), Always, Never}
    IN  plain \cup {Negate(m) : m \in plain}
              \cup {Negate(Negate(Meta(Tag, o)))}

InitMatch ==
    /\ pc = "match"
    /\ field \in FieldValues
    /\ metaop \in MetaOps
    /\ tested \in MatchersOf(metaop)
    /\ file \in MatchFiles(field)
    /\ doc = DocReadNew(DocPath)
    /\ opens = 0
    /\ rets = <<>>
    /\ compared = None
    /\ verdict = None
    /\ ParseIdle
    /\ CompileIdle
    /\ SelIdle
    /\ PreIdle

\* MetaOp::matches(&metaop, &field)
CallMetaOpMatches ==
    /\ pc = "match"
    /\ compared = None
    /\ compared' = Some(MetaOpMatches(metaop, field))
    /\ UNCHANGED <<pc, field, metaop, tested, verdict, docVars,
                   parseVars, compileVars, selVars, preVars>>

\* tested.matches(&mut doc)
CallMatches ==
    /\ pc = "match"
    /\ verdict = None
    /\ \E r \in {Matches(tested, doc, file)} :
           /\ verdict' = Some(r.ret)
           /\ doc' = r.doc
           /\ opens' = IF r.opened THEN opens + 1 ELSE opens
    /\ UNCHANGED <<pc, field, metaop, tested, compared, file, rets,
                   parseVars, compileVars, selVars, preVars>>

NextMatch ==
    \/ CallMetaOpMatches
    \/ CallMatches

SpecMatch == InitMatch /\ [][NextMatch]_vars

(***************************************************************************)
(* Selecting documents.  A caller either calls select_all and pulls the    *)
(* iterator's elements one by one, or calls select_one.  The file system   *)
(* stays as it is during one call.                                         *)
(***************************************************************************)
Dirs == <<"a", "b", "c", "d", "e", "g", "h", "i", "j", "k", "l", "m", "n", "p">>

\* The path of the document with base name `stem` found as element `at`.
PathOf(at, stem) == <<"/", Dirs[at], "/">> \o stem \o <<".", "m", "d">>

Stems == {<<"f">>, <<"f", "o">>}

Tagged == FileOf(TRUE, Ok(Some(Mapping(Tag, Str(<<"w">>)))))

Untagged == FileOf(TRUE, Ok(None))

Unreadable == FileOf(FALSE, Ok(None))

SelFiles == {Tagged, Untagged, Unreadable}

EntryKinds ==
    {[t |-> "Err"]} \cup [t : {"Ok"}, stem : Stems, file : SelFiles]

MakeRoot(kinds) ==
    [i \in 1..Len(kinds) |->
        IF kinds[i].t = "Err" THEN WalkErr(i)
        ELSE Entry(PathOf(i, kinds[i].stem), kinds[i].file)]

SmallRoots == {MakeRoot(ks) : ks \in SeqsUpTo(EntryKinds, MaxDocs)}

\* A root of n documents named "fo" and tagged, but an error (of the
\* enumerator, or an unreadable file) at position e and an untagged document
\* at position u.
LongRoot(n, e, walk, u) ==
    [i \in 1..n |->
        IF i = e THEN (IF walk THEN WalkErr(i)
                       ELSE Entry(PathOf(i, <<"f", "o">>), Unreadable))
        ELSE IF i = u THEN Entry(PathOf(i, <<"f", "o">>), Untagged)
        ELSE Entry(PathOf(i, <<"f", "o">>), Tagged)]

LongRoots ==
    {LongRoot(n, e, walk, u) :
        n \in 0..MaxLong, e \in 0..MaxLong, walk \in BOOLEAN, u \in 0..MaxLong}

SmartTokens == {<<"f">>, <<"f", "o">>}

SimpleTokens ==
    { Tag \o <<":", "w">>,
      <<"!">> \o Tag \o <<":", "w">>,
      Path \o <<":", "/", "f", "o", "/">> }

\* The compiled queries of the command lines with at most one smart name
\* among `smart` and at most n simple criteria among `simple`.
QueriesOf(smart, simple, n) ==
    LET lists == {<<>>} \cup {<<FromStr(tok)>> : tok \in smart}
        all   == {FromOpt([preset |-> "default",
                           criteria |-> sm \o [i \in DOMAIN ts |-> FromStr(ts[i])]]) :
                     sm \in lists, ts \in SeqsUpTo(simple, n)}
    IN  {q.v : q \in {r \in all : r.t = "Ok"}}

InitSelection(roots, queries) ==
    /\ pc = "query"
    /\ root \in roots
    /\ query \in queries
    /\ it = None
    /\ out = <<>>
    /\ evlog = <<>>
    /\ result = None
    /\ pulls = 0
    /\ ParseIdle
    /\ CompileIdle
    /\ DocIdle
    /\ MatchIdle
    /\ PreIdle

InitSelect == InitSelection(SmallRoots, QueriesOf(SmartTokens, SimpleTokens, MaxMatchers))

InitOne ==
    InitSelection(LongRoots,
                  QueriesOf({<<"f">>}, {Tag \o <<":", "w">>}, 1))

CallSelectAll ==
    /\ pc = "query"
    /\ \E sa \in {SelectAll(root, query)} :
           /\ it' = sa.it
           /\ evlog' = sa.log
    /\ pc' = "iter"
    /\ UNCHANGED <<root, query, out, result, pulls,
                   parseVars, compileVars, docVars, matchVars, preVars>>

ItNext ==
    /\ pc = "iter"
    /\ \E n \in {PeekableNext(root, query, it)} :
           /\ it' = n.it
           /\ evlog' = evlog \o n.log
           /\ out' = IF n.item.t = "Some" THEN Append(out, n.item.v) ELSE out
           /\ pc' = IF n.item.t = "Some" THEN "iter" ELSE "end"
    /\ UNCHANGED <<root, query, result, pulls,
                   parseVars, compileVars, docVars, matchVars, preVars>>

CallSelectOne ==
    /\ pc = "query"
    /\ \E r \in {SelectOne(root, query)} :
           /\ result' = r.result
           /\ it' = r.st.it
           /\ evlog' = r.st.log
           /\ pulls' = Len(r.st.pulled)
           /\ out' = [i \in {j \in DOMAIN r.st.pulled : r.st.pulled[j].t = "Some"}
                        |-> r.st.pulled[i].v]
    /\ pc' = "selected"
    /\ UNCHANGED <<root, query, parseVars,
                   compileVars, docVars, matchVars, preVars>>

NextSelect ==
    \/ CallSelectAll
    \/ ItNext
    \/ CallSelectOne

SpecSelect == InitSelect /\ [][NextSelect]_vars

SpecOne == InitOne /\ [][NextSelect]_vars

(***************************************************************************)
(* Claims about Criterion::from_str.  The token's shape is described here  *)
(* character by character, apart from the parser's own helpers.            *)
(***************************************************************************)
TokNegated(tok) == Len(tok) >= 1 /\ tok[1] = "!"

TokBody(tok) == IF TokNegated(tok) THEN Tail(tok) ELSE tok

TokWrapped(s) == Len(s) >= 2 /\ s[1] = "/" /\ s[Len(s)] = "/"

TokInner(s) == SubSeq(s, 2, Len(s) - 1)

TokFirstColon(s, i) ==
    /\ i \in 1..Len(s)
    /\ s[i] = ":"
    /\ \A j \in 1..(i - 1) : s[j] # ":"

TokHasColon(s) == \E i \in 1..Len(s) : s[i] = ":"

TokValue(s) ==
    LET i == CHOOSE k \in 1..Len(s) : TokFirstColon(s, k)
    IN  SubSeq(s, i + 1, Len(s))

TokKey(s) ==
    LET i == CHOOSE k \in 1..Len(s) : TokFirstColon(s, k)
    IN  SubSeq(s, 1, i - 1)

TokRange(s) ==
    /\ TokHasColon(s)
    /\ Len(TokValue(s)) >= 1
    /\ TokValue(s)[1] \in {"<", ">"}

AnyErr == [t |-> "Err"]

\* A parse result with the wording of an error left out.
Outcome(r) == IF r.t = "Err" THEN AnyErr ELSE r

\* The result the four rules give, with or without the range rejection in
\* rule 3.
Classified(tok, rangeRejected) ==
    LET neg == TokNegated(tok)
        s   == TokBody(tok)
    IN  IF TokWrapped(s)
        THEN Simple(neg, NameRegexC(TokInner(s)))
        ELSE IF Len(s) >= 1 /\ s[1] = "="
             THEN AnyErr
             ELSE IF TokHasColon(s)
                  THEN IF rangeRejected /\ TokRange(s)
                       THEN AnyErr
                       ELSE IF TokWrapped(TokValue(s))
                            THEN Simple(neg, MetaRegexC(TokKey(s), TokInner(TokValue(s))))
                            ELSE Simple(neg, MetaEqC(TokKey(s), TokValue(s)))
                  ELSE IF neg THEN AnyErr ELSE NameSmart(s)

IsContentSearch(tok) == StartsWith(TokBody(tok), Contents \o <<":">>)

\* C7: a content-search criterion (contents:TEXT) is rejected by
\* Criterion::from_str; it is never accepted as a metadata or name criterion.
C7_ContentSearchRejected ==
    (pc # "token" /\ IsContentSearch(token)) => parsed.t = "Err"

\* C8: with or without a leading "!", a token that is not /REGEX/-wrapped and
\* either starts with "=" or has a value part (the text after its first ":")
\* starting with "<" or ">" is rejected: no Criterion is produced for it.
C8_UnimplementedRejected ==
    pc # "token" =>
        LET s == TokBody(token)
        IN  (/\ ~TokWrapped(s)
             /\ \/ (Len(s) >= 1 /\ s[1] = "=")
                \/ TokRange(s))
            => parsed.t = "Err"

C8_Witness ==
    /\ pc = "parsed"
    /\ TokNegated(token)
    /\ ~TokWrapped(TokBody(token))
    /\ TokBody(token)[1] # "="
    /\ TokRange(TokBody(token))
    /\ parsed.t = "Err"

\* C9 as stated: the token is classified by rules (1)-(4) where rule (3)
\* gives MetaRegex or MetaEq for every token with a ":", and for every token
\* t that parses to a simple criterion "!" + t parses to the same simple
\* criterion with negate = true.
C9_AsStated ==
    /\ pc # "token" => Outcome(parsed) = Classified(token, FALSE)
    /\ (pc = "negated" /\ parsed.t = "Simple")
           => negated = [parsed EXCEPT !.negate = TRUE]

\* C9 amended: rule (3) rejects a value that starts with "<" or ">" before it
\* tells MetaRegex from MetaEq, and "!" + t parses to the same simple
\* criterion with negate = true for every token t that does not itself start
\* with "!" and parses to a simple criterion; a negated smart-name term is an
\* error.
C9_Classification ==
    /\ pc # "token" => Outcome(parsed) = Classified(token, TRUE)
    /\ (pc = "negated" /\ parsed.t = "Simple" /\ ~TokNegated(token))
           => negated = [parsed EXCEPT !.negate = TRUE]
    /\ (pc = "negated" /\ parsed.t = "NameSmart") => negated.t = "Err"

C9_Witness ==
    /\ pc = "negated"
    /\ ~TokNegated(token)
    /\ parsed.t = "Simple"
    /\ parsed.simple_criterion.t = "MetaRegex"
    /\ negated = Simple(TRUE, parsed.simple_criterion)

(***************************************************************************)
(* Claims about Query::from_opt.                                           *)
(***************************************************************************)
IsSimple(c) == c.t = "Simple"

\* The matcher m is the one the simple criterion sc stands for.
MatcherOf(sc, m) ==
    /\ sc.t = "NameRegex" =>
           m.t = "NameRegex" /\ m.regex.pattern = sc.regex
    /\ sc.t = "MetaEq" =>
           m.t = "Meta" /\ m.key = sc.key /\ m.op = [t |-> "Eq", rhs |-> sc.value]
    /\ sc.t = "MetaRegex" =>
           /\ m.t = "Meta"
           /\ m.key = sc.key
           /\ m.op.t = "Regex"
           /\ m.op.regex.pattern = sc.regex

\* C10: Query::from_opt fails whenever the criteria hold two or more
\* NameSmart; when it succeeds the smart name is the single NameSmart
\* pattern, or None without one, and the matcher list holds one matcher per
\* simple criterion, in input order, wrapped in Negate exactly when the
\* criterion's negate flag is set.
C10_FromOpt ==
    pc = "compiled" =>
        LET cs      == in_query.criteria
            smart   == {i \in DOMAIN cs : cs[i].t = "NameSmart"}
            simples == SelectSeq(cs, IsSimple)
        IN  /\ Cardinality(smart) >= 2 => compiled.t = "Err"
            /\ compiled.t = "Ok" =>
                   /\ smart = {} => compiled.v.smart_name = None
                   /\ \A i \in smart :
                          compiled.v.smart_name = [t |-> "Some", v |-> cs[i].pattern]
                   /\ Len(compiled.v.matchers) = Len(simples)
                   /\ \A k \in 1..Len(simples) :
                          LET m == compiled.v.matchers[k]
                              c == simples[k]
                          IN  /\ (m.t = "Negate") <=> c.negate
                              /\ MatcherOf(c.simple_criterion,
                                           IF m.t = "Negate" THEN m.inner ELSE m)

C10_Witness ==
    /\ pc = "compiled"
    /\ compiled.t = "Ok"
    /\ compiled.v.smart_name.t = "Some"
    /\ Len(compiled.v.matchers) = 2
    /\ compiled.v.matchers[1].t = "Negate"
    /\ compiled.v.matchers[1].inner.t = "Meta"
    /\ compiled.v.matchers[2].t = "NameRegex"
    /\ in_query.criteria[2].t = "NameSmart"

(***************************************************************************)
(* Claims about DocRead::ensure_meta.                                      *)
(***************************************************************************)
\* C6: over any sequence of ensure_meta calls on one handle the file is
\* opened at most once; meta is None until the first access, and every later
\* call returns the value of the first one, also when the first access ended
\* in an error.
C6_ReadAtMostOnce ==
    pc = "doc" =>
        /\ opens <= 1
        /\ rets = <<>> => doc.meta = None
        /\ \A i \in 1..Len(rets) : rets[i] = rets[1]

(***************************************************************************)
(* Claims about select_all.  The phase sequences are described entry by    *)
(* entry, apart from the iterator: what an entry of the enumeration        *)
(* contributes depends on the entry alone.                                 *)
(***************************************************************************)
\* The base name of the entry equals the smart name (phase 0) or starts
\* with it (phase 1); without a smart name every entry passes in phase 0
\* and none in phase 1.
NameOk(entry, qry, phase) ==
    LET stem == FileStem(entry.path)
    IN  IF qry.smart_name.t = "None"
        THEN phase = 0
        ELSE /\ stem.t = "Some"
             /\ IF phase = 0
                THEN stem.v = qry.smart_name.v
                ELSE /\ ToStr(stem.v).t = "Some"
                     /\ StartsWith(stem.v, qry.smart_name.v)

\* What one compiled matcher says of the entry's document.
Verdict(m, entry) == Matches(m, DocReadNew(entry.path), entry.file).ret

\* What the entry contributes to a phase: a document ("Ok"), an error
\* ("Err") or nothing ("None").
Yields(entry, qry, phase) ==
    IF entry.t = "Err" THEN "Err"
    ELSE IF ~NameOk(entry, qry, phase) THEN "None"
    ELSE LET ms  == qry.matchers
             bad == {k \in 1..Len(ms) : Verdict(ms[k], entry) # Ok(TRUE)}
         IN  IF bad = {} THEN "Ok"
             ELSE IF Verdict(ms[CHOOSE k \in bad : \A j \in bad : k <= j], entry).t = "Err"
                  THEN "Err"
                  ELSE "None"

\* An element as its position in the enumeration, its kind and, for a
\* document, its path.
ShapeOf(at, kind, path) ==
    [at |-> at, t |-> kind, path |-> IF kind = "Ok" THEN Some(path) ELSE None]

Shape(item) ==
    ShapeOf(item.at, item.res.t,
            IF item.res.t = "Ok" THEN item.res.v.path ELSE <<>>)

\* The sequence of one phase over the whole enumeration.
PhaseSeq(rt, qry, phase) ==
    LET kept == SelectSeq([i \in 1..Len(rt) |-> i],
                          LAMBDA i : Yields(rt[i], qry, phase) # "None")
    IN  [k \in 1..Len(kept) |->
            ShapeOf(kept[k], Yields(rt[kept[k]], qry, phase),
                    IF rt[kept[k]].t = "Ok" THEN rt[kept[k]].path ELSE <<>>)]

\* C1: for a query with a smart name, select_all returns the phase-0
\* sequence (exact base name, every compiled matcher passed) whenever that
\* sequence is non-empty, and the phase-1 sequence (base name starting with
\* the smart name, every compiled matcher passed) only when phase 0 yields
\* no element over the whole enumeration; the elements returned all come
\* from one phase.
C1_PhasedFallback ==
    (pc \in {"iter", "end"} /\ query.smart_name.t = "Some") =>
        LET s0     == PhaseSeq(root, query, 0)
            s1     == PhaseSeq(root, query, 1)
            phase  == IF s0 # <<>> THEN 0 ELSE 1
            chosen == IF s0 # <<>> THEN s0 ELSE s1
        IN  /\ Len(out) <= Len(chosen)
            /\ \A i \in 1..Len(out) :
                   /\ Shape(out[i]) = chosen[i]
                   /\ out[i].phase = phase
            /\ pc = "end" => Len(out) = Len(chosen)

C1_Witness ==
    /\ pc = "end"
    /\ query.smart_name.t = "Some"
    /\ query.matchers # <<>>
    /\ PhaseSeq(root, query, 0) = <<>>
    /\ \E i \in 1..Len(root) : root[i].t = "Ok" /\ NameOk(root[i], query, 0)
    /\ Len(out) >= 2
    /\ \E i \in 1..Len(out) : out[i].res.t = "Ok"

\* The element is a document whose base name is not the smart name.
ProperPrefixOnly(item, qry) ==
    /\ item.res.t = "Ok"
    /\ FileStem(item.res.v.path) # Some(qry.smart_name.v)

\* C2 as stated: whenever some document of the root has the exact base
\* name, select_all returns no document matching the smart name only as a
\* proper prefix, whatever the other criteria of the query are.
C2_AsStated ==
    (/\ pc \in {"iter", "end"}
     /\ query.smart_name.t = "Some"
     /\ \E i \in 1..Len(root) : root[i].t = "Ok" /\ NameOk(root[i], query, 0))
        => \A k \in 1..Len(out) : ~ProperPrefixOnly(out[k], query)

\* C2 amended: whenever some document of the root has the exact base name
\* and passes every other criterion of the query, select_all returns no
\* document matching the smart name only as a proper prefix.
C2_ExactPreferred ==
    (/\ pc \in {"iter", "end"}
     /\ query.smart_name.t = "Some"
     /\ \E i \in 1..Len(root) : Yields(root[i], query, 0) = "Ok")
        => \A k \in 1..Len(out) : ~ProperPrefixOnly(out[k], query)

C2_Witness ==
    /\ pc = "end"
    /\ query.smart_name.t = "Some"
    /\ query.matchers # <<>>
    /\ \E i \in 1..Len(root) : Yields(root[i], query, 0) = "Ok"
    /\ \E j \in 1..Len(root) :
           /\ Yields(root[j], query, 1) = "Ok"
           /\ ~NameOk(root[j], query, 0)
    /\ out # <<>>

(***************************************************************************)
(* Claims about select_one.                                                *)
(***************************************************************************)
\* Every element of an iterator, pulled until it ends.
RECURSIVE DrainFrom(_, _, _, _)
DrainFrom(rt, qry, iter, acc) ==
    With(PeekableNext(rt, qry, iter),
         LAMBDA n : IF n.item.t = "None" THEN acc
                    ELSE With(Append(acc, n.item.v),
                              LAMBDA a : DrainFrom(rt, qry, n.it, a)))

\* Everything select_all yields for the query.
Yielded(rt, qry) == DrainFrom(rt, qry, SelectAll(rt, qry).it, <<>>)

\* C3: select_one returns Empty when select_all yields no element, Ok(d)
\* when select_all yields exactly one element and it is the document d, and
\* never Ok when select_all yields two or more elements.
C3_ZeroOrOne ==
    pc = "selected" =>
        LET s == Yielded(root, query)
        IN  /\ s = <<>> => result = Empty
            /\ (Len(s) = 1 /\ s[1].res.t = "Ok") => result = Ok(s[1].res.v)
            /\ Len(s) >= 2 => result.t # "Ok"

C3_Witness ==
    /\ pc = "selected"
    /\ query.matchers # <<>>
    /\ Len(root) >= 2
    /\ Len(Yielded(root, query)) = 1
    /\ result.t = "Ok"

Min2(a, b) == IF a <= b THEN a ELSE b

\* C4: when select_all yields n >= 2 documents and no error among its first
\* 11 elements, select_one returns Ambiguous with the first min(n, 10)
\* documents in select_all order as candidates, and truncated is true if and
\* only if n >= 11.
C4_Ambiguous ==
    pc = "selected" =>
        LET s == Yielded(root, query)
            n == Len(s)
        IN  (/\ n >= 2
             /\ \A i \in 1..Min2(n, 11) : s[i].res.t = "Ok")
            => result = Ambiguous([i \in 1..Min2(n, 10) |-> s[i].res.v], n >= 11)

C4_Witness ==
    /\ pc = "selected"
    /\ Len(Yielded(root, query)) = 12
    /\ \A i \in 1..12 : Yielded(root, query)[i].res.t = "Ok"
    /\ result.t = "Ambiguous"
    /\ Len(result.candidates) = 10
    /\ result.truncated

\* C5: if an element select_one pulls from select_all is an error, as the
\* first, as the second or while further candidates are collected,
\* select_one returns Misc with the first such error, and neither Ok, Empty
\* nor Ambiguous.
C5_ErrorIsMisc ==
    pc = "selected" =>
        LET errs == {i \in 1..Len(out) : out[i].res.t = "Err"}
        IN  errs # {} =>
                result = Misc(out[CHOOSE i \in errs : \A j \in errs : i <= j].res)

C5_Witness ==
    /\ pc = "selected"
    /\ Len(out) >= 3
    /\ out[Len(out)].res.t = "Err"
    /\ \A i \in 1..(Len(out) - 1) : out[i].res.t = "Ok"
    /\ result.t = "Misc"


(***************************************************************************)
(* Claims about the matchers.                                              *)
(***************************************************************************)
\* C11: on a sequence value MetaOp::matches is true if any element compares
\* true, otherwise false if any element compares false, and uncomparable
\* only if every element is uncomparable.
C11_SequenceFold ==
    (compared.t = "Some" /\ field.t = "Sequence") =>
        LET each == {MetaOpMatches(metaop, field.v[i]) : i \in 1..Len(field.v)}
        IN  /\ Some(TRUE) \in each => compared.v = Some(TRUE)
            /\ (Some(TRUE) \notin each /\ Some(FALSE) \in each)
                   => compared.v = Some(FALSE)
            /\ compared.v = None => each \subseteq {None}

C11_Witness ==
    /\ field = Sequence(<<Number(1), Str(W)>>)
    /\ metaop = Eq(W)
    /\ compared = Some(Some(TRUE))

\* A value MetaOp::matches cannot compare: a mapping, a number, a boolean,
\* or a sequence of only such values.
RECURSIVE Uncomparable(_)
Uncomparable(y) ==
    \/ y.t \in {"Mapping", "Number", "Bool"}
    \/ /\ y.t = "Sequence"
       /\ y.v # <<>>
       /\ \A i \in 1..Len(y.v) : Uncomparable(y.v[i])

\* What loading the metadata of a fresh handle on the file gives.
Loaded == EnsureMeta(DocReadNew(DocPath), file).ret

\* C12: Meta.matches returns no error because of the shape of the value
\* looked up: an absent key, a null value and an uncomparable value give
\* Ok(false), and an error it returns is the error of loading the metadata.
C12_ShapeIsNoError ==
    (verdict.t = "Some" /\ tested.t = "Meta") =>
        /\ verdict.v.t = "Err" =>
               /\ tested.key # Path
               /\ verdict.v = Loaded
        /\ (tested.key # Path /\ Loaded.t = "Ok") =>
               LET absent == ~(Loaded.v.t = "Mapping" /\ Loaded.v.key = tested.key)
               IN  (\/ absent
                    \/ Loaded.v.v = Null
                    \/ Uncomparable(Loaded.v.v))
                   => verdict.v = Ok(FALSE)

C12_Witness ==
    /\ tested = Meta(Tag, Eq(W))
    /\ file = FileOf(TRUE, Ok(Some(Mapping(Tag, Sequence(<<Number(1), Bool(TRUE)>>)))))
    /\ verdict = Some(Ok(FALSE))

\* C19: Negate.matches returns Ok(true) when the inner matcher returns
\* Ok(false), Ok(false) when it returns Ok(true), and the inner matcher's
\* error unchanged when it returns an error.
C19_Negate ==
    (verdict.t = "Some" /\ tested.t = "Negate") =>
        LET inner == Matches(tested.inner, DocReadNew(DocPath), file).ret
        IN  /\ inner = Ok(FALSE) => verdict.v = Ok(TRUE)
            /\ inner = Ok(TRUE) => verdict.v = Ok(FALSE)
            /\ inner.t = "Err" => verdict.v = inner

C19_Witness ==
    /\ tested.t = "Negate"
    /\ tested.inner.t = "Meta"
    /\ ~file.open
    /\ verdict.t = "Some"
    /\ verdict.v.t = "Err"

\* C20: a Meta matcher with the key "path" compares its operator with the
\* text of the document's full path; evaluating it leaves the handle's meta
\* slot as it was and opens no file, so it returns no error.
C20_PathPseudoField ==
    (verdict.t = "Some" /\ tested.t = "Meta" /\ tested.key = Path) =>
        /\ verdict.v = Ok(IF tested.op.t = "Eq"
                          THEN tested.op.rhs = ToStringLossy(DocPath)
                          ELSE RegexIsMatch(tested.op.regex, ToStringLossy(DocPath)))
        /\ doc = DocReadNew(DocPath)
        /\ opens = 0

C20_Witness ==
    /\ tested = Meta(Path, Eq(DocPath))
    /\ ~file.open
    /\ verdict = Some(Ok(TRUE))
    /\ doc.meta = None

(***************************************************************************)
(* Claims about the evaluation order and the errors of select_all, and     *)
(* about the bound of select_one.                                          *)
(***************************************************************************)
\* The number of the first compiled matcher that does not return Ok(true)
\* for the entry's document, 0 when all do.
FirstBad(entry, qry) ==
    LET bad == {k \in 1..Len(qry.matchers) :
                   Verdict(qry.matchers[k], entry) # Ok(TRUE)}
    IN  IF bad = {} THEN 0 ELSE CHOOSE k \in bad : \A j \in bad : k <= j

\* The matcher numbers evaluated on the entry at `at` in a phase.
Evaluated(phase, at) ==
    {evlog[k].m : k \in {j \in DOMAIN evlog : /\ evlog[j].ev = "match"
                                               /\ evlog[j].phase = phase
                                               /\ evlog[j].at = at}}

\* C13: once the iterator of select_all is drained, every error of the
\* enumerator and every error a matcher returned is an Err element of the
\* output at its document's position, no later matcher was evaluated on that
\* document, and every other document was still evaluated and, when it
\* passes, yielded.
C13_ErrorsAreElements ==
    pc = "end" =>
        \A i \in 1..Len(root) :
            /\ root[i].t = "Err" =>
                   /\ \E k \in 1..Len(out) : out[k].at = i /\ out[k].res = root[i]
                   /\ Evaluated(0, i) \cup Evaluated(1, i) = {}
            /\ root[i].t = "Ok" =>
                   /\ 0 \in Evaluated(it.phase, i)
                   /\ Yields(root[i], query, it.phase) = "Ok" =>
                          \E k \in 1..Len(out) :
                              out[k].at = i /\ out[k].res.t = "Ok"
                   /\ Yields(root[i], query, it.phase) = "Err" =>
                          LET bad == FirstBad(root[i], query)
                          IN  /\ \E k \in 1..Len(out) :
                                     /\ out[k].at = i
                                     /\ out[k].res = Verdict(query.matchers[bad], root[i])
                              /\ \A m \in Evaluated(it.phase, i) : m <= bad

C13_Witness ==
    /\ pc = "end"
    /\ Len(query.matchers) = 2
    /\ Len(out) = 3
    /\ out[1].res.t = "Err" /\ root[out[1].at].t = "Ok"
    /\ out[2].res.t = "Err" /\ root[out[2].at].t = "Err"
    /\ out[3].res.t = "Ok"
    /\ Evaluated(it.phase, out[1].at) = {0, 1}

\* C14: when the query's smart name is unset, select_all runs phase 0 only:
\* root.docs() is called once and nothing is evaluated in phase 1, also when
\* phase 0 yields no element.
C14_SinglePhase ==
    (pc \in {"iter", "end", "selected"} /\ query.smart_name = None) =>
        /\ Cardinality({k \in DOMAIN evlog : evlog[k].ev = "walk"}) = 1
        /\ \A k \in DOMAIN evlog : evlog[k].phase = 0

\* C17: a compiled matcher is evaluated on a document only after the
\* smart-name matcher and every earlier compiled matcher were evaluated on
\* it, in that order, and returned true; a file is opened only by the
\* evaluation of a Meta matcher reached that way.
C17_OrderAndShortCircuit ==
    pc \in {"iter", "end", "selected"} =>
        \A k \in DOMAIN evlog :
            LET e == evlog[k]
            IN  /\ (e.ev = "match" /\ e.m >= 1) =>
                       /\ root[e.at].t = "Ok"
                       /\ NameOk(root[e.at], query, e.phase)
                       /\ \A j \in 1..(e.m - 1) :
                              Verdict(query.matchers[j], root[e.at]) = Ok(TRUE)
                       /\ \E h \in 1..(k - 1) :
                              /\ evlog[h] = Event("match", e.phase, e.at, e.m - 1)
                              /\ \A j \in (h + 1)..(k - 1) :
                                     evlog[j] = Event("open", e.phase, e.at, e.m - 1)
                /\ e.ev = "open" =>
                       /\ k > 1
                       /\ evlog[k - 1] = Event("match", e.phase, e.at, e.m)
                       /\ e.m >= 1

C17_Witness ==
    /\ pc = "end"
    /\ query.smart_name.t = "Some"
    /\ Len(query.matchers) = 2
    /\ Len(root) = 3
    /\ ~NameOk(root[1], query, it.phase) /\ Evaluated(it.phase, 1) = {0}
    /\ Evaluated(it.phase, 2) = {0, 1}
    /\ Evaluated(it.phase, 3) = {0, 1, 2}
    /\ \E k \in DOMAIN evlog : evlog[k].ev = "open"

\* C18: select_one pulls at most 11 elements from the select_all sequence,
\* its candidate list holds at most 11 entries before the truncation (the
\* assertion holds) and at most 10 after it.
C18_BoundedCollection ==
    pc = "selected" =>
        /\ pulls <= num_candidates_to_display + 1
        /\ Len(out) <= num_candidates_to_display + 1
        /\ result.t # "Panic"
        /\ result.t = "Ambiguous" =>
               Len(result.candidates) <= num_candidates_to_display

C18_Witness ==
    /\ pc = "selected"
    /\ Len(Yielded(root, query)) = 12
    /\ pulls = 11
    /\ result.t = "Ambiguous"
    /\ Len(result.candidates) = 10

(***************************************************************************)
(* Claims about read_md_preamble.  The block is described on the whole     *)
(* stream, apart from the reads.                                           *)
(***************************************************************************)
CrLf == <<"\r", "\n">>

\* The opening delimiter the stream starts with, <<>> when it starts with
\* none; ---\r\n is told from ---\r by the byte after it.
OpeningOf(bytes) ==
    IF StartsWith(bytes, Dashes \o CrLf) THEN Dashes \o CrLf
    ELSE IF StartsWith(bytes, Dashes \o <<"\n">>) THEN Dashes \o <<"\n">>
    ELSE IF StartsWith(bytes, Dashes \o <<"\r">>) THEN Dashes \o <<"\r">>
    ELSE <<>>

\* The closing delimiter of the same line-ending style.
ClosingOf(opening) ==
    LET eol == SubSeq(opening, 4, Len(opening))
    IN  eol \o Dashes \o eol

\* The bytes after the opening delimiter.
AfterOpening(bytes) == SubSeq(bytes, Len(OpeningOf(bytes)) + 1, Len(bytes))

\* Where the closing delimiter occurs after the opening delimiter.
Closings(bytes) ==
    LET rest == AfterOpening(bytes)
        sep  == ClosingOf(OpeningOf(bytes))
    IN  {i \in 0..(Len(rest) - Len(sep)) : SubSeq(rest, i + 1, i + Len(sep)) = sep}

\* C15: for a stream that starts with an opening delimiter, however the
\* bytes after the lookahead are split into reads, the block extracted is
\* the bytes strictly between the opening delimiter and the first later
\* occurrence of the closing delimiter of the same line-ending style.
C15_ChunkIndependent ==
    (/\ pc = "pre"
     /\ preamble # None
     /\ file.fail = None
     /\ OpeningOf(stream) # <<>>
     /\ Closings(stream) # {})
        => extracted = Ok(Some(SubSeq(AfterOpening(stream), 1,
                                      SetMin(Closings(stream)))))

C15_Witness ==
    /\ pc = "pre"
    /\ stream = Dashes \o <<"\n", "a">> \o <<"\n", "-", "-", "-", "\n">>
    /\ reads = <<2, 1>>
    /\ extracted = Ok(Some(<<"a">>))
    /\ preamble.t = "Ok"
    /\ preamble.v.t = "Some"

\* C16: read_md_preamble returns Ok(None) for a stream that does not start
\* with an opening delimiter, for a stream shorter than the lookahead and
\* for a stream whose opening delimiter is not followed by the closing
\* delimiter of its style; ensure_meta then returns the null value and not
\* an error.
C16_NoBlockIsNone ==
    (/\ pc = "pre"
     /\ file.fail = None
     /\ \/ OpeningOf(stream) = <<>>
        \/ Len(stream) < 5
        \/ Closings(stream) = {})
        => /\ preamble # None => (preamble = Ok(None) /\ extracted = Ok(None))
           /\ \A i \in 1..Len(rets) : rets[i] = Ok(Null)
           /\ rets # <<>> => doc.meta = Some(Null)

C16_Witness ==
    /\ pc = "pre"
    /\ file.fail = None
    /\ OpeningOf(stream) = Dashes \o <<"\n">>
    /\ Len(stream) > 5
    /\ Closings(stream) = {}
    /\ \E i \in 0..(Len(stream) - 7) :
           SubSeq(stream, i + 1, i + 7) = CrLf \o Dashes \o CrLf
    /\ preamble = Ok(None)
    /\ rets # <<>>
    /\ rets[1] = Ok(Null)

(***************************************************************************)
(* Claims about what follows from the code without being written in it.    *)
(***************************************************************************)
\* C21: when a smart name is set and phase 0 yields no document but at
\* least one error element, select_all returns the phase-0 sequence and
\* never runs phase 1: no document is returned.
C21_ErrorKeepsPhaseZero ==
    (/\ pc \in {"iter", "end"}
     /\ query.smart_name.t = "Some"
     /\ PhaseSeq(root, query, 0) # <<>>
     /\ \A k \in 1..Len(PhaseSeq(root, query, 0)) :
            PhaseSeq(root, query, 0)[k].t = "Err")
        => /\ it.phase = 0
           /\ \A k \in DOMAIN evlog : evlog[k].phase = 0
           /\ Len(out) <= Len(PhaseSeq(root, query, 0))
           /\ \A k \in 1..Len(out) :
                  /\ Shape(out[k]) = PhaseSeq(root, query, 0)[k]
                  /\ out[k].res.t = "Err"
           /\ pc = "end" => Len(out) = Len(PhaseSeq(root, query, 0))

C21_Witness ==
    /\ pc = "end"
    /\ query.smart_name.t = "Some"
    /\ Len(out) = 1
    /\ out[1].res.t = "Err"
    /\ root[out[1].at].t = "Ok"
    /\ NameOk(root[out[1].at], query, 0)
    /\ \E j \in 1..Len(root) :
           /\ j < out[1].at
           /\ Yields(root[j], query, 1) = "Ok"

\* C22: a negated metadata criterion matches every document whose field is
\* absent, null or of an uncomparable shape, and every document without a
\* metadata block.
C22_NegatedMetaMatches ==
    (/\ verdict.t = "Some"
     /\ tested.t = "Negate"
     /\ tested.inner.t = "Meta"
     /\ tested.inner.key # Path
     /\ Loaded.t = "Ok"
     /\ \/ ~(Loaded.v.t = "Mapping" /\ Loaded.v.key = tested.inner.key)
        \/ Loaded.v.v = Null
        \/ Uncomparable(Loaded.v.v))
        => verdict.v = Ok(TRUE)

C22_Witness ==
    /\ tested = Negate(Meta(Tag, Regex([pattern |-> <<"^", "w">>])))
    /\ file = FileOf(TRUE, Ok(Some(Mapping(Tag, Number(1)))))
    /\ verdict = Some(Ok(TRUE))

\* The matcher reads the document's metadata when it is evaluated.
RECURSIVE LoadsMeta(_)
LoadsMeta(m) ==
    \/ m.t = "Meta" /\ m.key # Path
    \/ m.t = "Negate" /\ LoadsMeta(m.inner)

\* The log entries of one kind for the entry at `at` in a phase.
EventsAt(ev, phase, at) ==
    {k \in DOMAIN evlog : /\ evlog[k].ev = ev
                          /\ evlog[k].phase = phase
                          /\ evlog[k].at = at}

\* C23: the sequence select_all returns holds, for the phase it returns,
\* each enumerated element that passes the filter exactly once and in the
\* enumerator's order, the first one included; each matcher is evaluated on
\* a document at most once per phase, and on a fresh handle: the file is
\* opened once in each phase in which a matcher reads the metadata.
C23_OnceInOrder ==
    pc \in {"iter", "end"} =>
        /\ \A k \in 1..Len(out) :
               /\ Yields(root[out[k].at], query, it.phase) = out[k].res.t
               /\ \A h \in 1..(k - 1) : out[h].at < out[k].at
               /\ \A i \in 1..(out[k].at - 1) :
                      Yields(root[i], query, it.phase) # "None"
                          => \E h \in 1..(k - 1) : out[h].at = i
        /\ pc = "end" =>
               \A i \in 1..Len(root) :
                   Yields(root[i], query, it.phase) # "None"
                       => \E k \in 1..Len(out) : out[k].at = i
        /\ \A phase \in {0, 1}, i \in 1..Len(root) :
               /\ \A m \in 0..Len(query.matchers) :
                      Cardinality({k \in EventsAt("match", phase, i) :
                                      evlog[k].m = m}) <= 1
               /\ Cardinality(EventsAt("open", phase, i)) =
                      IF \E m \in Evaluated(phase, i) :
                             m >= 1 /\ LoadsMeta(query.matchers[m])
                      THEN 1 ELSE 0

C23_Witness ==
    /\ pc = "end"
    /\ it.phase = 1
    /\ Len(out) >= 2
    /\ out[1].at = 1
    /\ \E i \in 1..Len(root) :
           /\ EventsAt("open", 0, i) # {}
           /\ EventsAt("open", 1, i) # {}

=============================================================================
